---- MODULE Spec2Model ----
(***************************************************************************)
(* anki-year-delay: the rescheduling script of src/anki_year_delay.        *)
(*                                                                         *)
(* The script is one sequential run of _main(): a fixed series of          *)
(* AnkiConnect requests with a little arithmetic between them.  The model  *)
(* has one action per request the script issues (the request, the reading  *)
(* of its response and the local code up to the next request), plus the    *)
(* ways a request can fail.  `log` is the sequence of request              *)
(* payloads posted so far; the other program variables keep the source's   *)
(* names.  The variables anki, clock and rng are the world the script      *)
(* talks to: the collection behind AnkiConnect, time.time() and the state  *)
(* of Python's random generator.                                           *)
(*                                                                         *)
(* Card ids are creation times in milliseconds.  TLC's integers are 32     *)
(* bits wide, so the modelled collection lives in the first weeks after    *)
(* the epoch; no arithmetic of the script depends on the absolute date.    *)
(***************************************************************************)
EXTENDS Integers, Sequences, FiniteSets, TLC

VARIABLES
    pc,                   \* the request _main() issues next, or "exit"
    log,                  \* payloads posted to AnkiConnect, in order
    exit_code,            \* the process's exit status, once pc = "exit"
    exception,            \* the exception that reached main(), or "none"
    debug,                \* ANKI_YEAR_DELAY_DEBUG as main() read it
    card_ids,
    first_card_id,
    graduating_interval,
    review_count,
    today_day_index,
    datetime_now,         \* seconds since the epoch
    batch_no,             \* batches the generator has yielded
    cids,
    i,
    actions,
    anki,                 \* the collection: the matching cards and the sample card
    clock,                \* what time.time() returns, in seconds
    rng                   \* state of the random generator

vars == <<pc, log, exit_code, exception, debug, card_ids, first_card_id,
          graduating_interval, review_count, today_day_index, datetime_now,
          batch_no, cids, i, actions, anki, clock, rng>>

(***************************************************************************)
(* Bounds of the model.                                                    *)
(***************************************************************************)
\* Most cards findCards returns.
MaxCards == 120
\* Most "good" answers the sample card needs to graduate, probe runs.
MaxNeed == 11
\* Most "good" answers the sample card needs to graduate, batch runs.
MaxBatchNeed == 2
\* Largest graduating interval of the deck.
MaxGradInt == 30
\* Largest day index of "today" in the collection.
MaxToday == 2
\* random() returns k / RandomSteps for k in 0..RandomSteps.
RandomSteps == 20
\* Most cards in a run that varies the generator's seed and the clock.
MaxDelayCards == 3

(***************************************************************************)
(* Program constants.                                                      *)
(***************************************************************************)
BATCH_SIZE == 50

ProbeLimit == 10

GraduatedType == 2

Ease == 3

DefaultTag == "anki:year-delay"

DeckName == "Articles"

Min(a, b) == IF a < b THEN a ELSE b

(***************************************************************************)
(* batched(iterable, n), lines 50-57.  The iterator is the sequence of     *)
(* elements not yet consumed; islice takes up to n of them.  The           *)
(* generator stops at the first empty batch.  (n < 1 raises ValueError;    *)
(* the only caller passes BATCH_SIZE.)                                     *)
(***************************************************************************)
\* A slip: the slice stops one element early.
islice_short(it, n) == SubSeq(it, 1, Min(n, Len(it)) - 1)

islice(it, n) == SubSeq(it, 1, Min(n, Len(it)))

RECURSIVE batched(_, _)
batched(iterable, n) ==
    LET batch == islice(iterable, n)
    IN  IF batch = <<>>
        THEN <<>>
        ELSE <<batch>> \o batched(SubSeq(iterable, Len(batch) + 1, Len(iterable)), n)

(***************************************************************************)
(* The collection behind AnkiConnect.                                      *)
(***************************************************************************)
\* The id of the k-th matching card: its creation time in milliseconds.
CardIdAt(k) == (k * 10000000) + ((k * 373) % 1000)

\* What findCards returns: anki.n cards, in either order.
Matching ==
    [k \in 1..anki.n |-> IF anki.reversed THEN CardIdAt(anki.n + 1 - k) ELSE CardIdAt(k)]

\* The note a card belongs to; consecutive cards share a note.
NoteOf(cid) == ((((cid \div 10000000) + 1) \div 2) * 20000000) - 10000005

\* The sample card's queue type: 0 new, 1 learning, 2 review, after
\* anki.answered "good" answers since it was last forgotten.
SampleType ==
    IF anki.answered >= anki.need THEN GraduatedType
    ELSE IF anki.answered = 0 THEN 0 ELSE 1

\* The sample card's due: a day index once graduated, a timestamp while
\* learning, a queue position while new.
SampleDue ==
    IF SampleType = GraduatedType THEN anki.gradDue
    ELSE IF SampleType = 1 THEN clock ELSE 0

\* cardsInfo on the sample card: the fields the script reads.
SampleInfo == <<[cardId |-> first_card_id, type |-> SampleType, due |-> SampleDue]>>

\* cardsInfo on a batch: one record per card asked for, in order.
CardsInfo(cards) ==
    [k \in 1..Len(cards) |-> [cardId |-> cards[k], note |-> NoteOf(cards[k])]]

\* The collection after forgetCards / answerCards on `cards`.
Forgotten(cards) ==
    IF \E k \in 1..Len(cards) : cards[k] = first_card_id
    THEN [anki EXCEPT !.answered = 0] ELSE anki

Answered(cards) ==
    IF \E k \in 1..Len(cards) : cards[k] = first_card_id
    THEN [anki EXCEPT !.answered = anki.answered + 1] ELSE anki

(***************************************************************************)
(* The arithmetic of lines 213-219 and 259-262.                            *)
(***************************************************************************)
\* Python's round() of num/den (den > 0): to nearest, ties to even.
PyRound(num, den) ==
    LET q == num \div den
        r == num % den
    IN  IF 2 * r < den THEN q
        ELSE IF 2 * r > den THEN q + 1
        ELSE IF q % 2 = 0 THEN q ELSE q + 1

\* round(random.uniform(0.9, 1.1) * 365.0) when random() returns
\* r / RandomSteps: uniform(a, b) is a + (b - a) * random(), and its
\* rounding lets b itself come out.
DelayDay(r) == PyRound((9 * RandomSteps + 2 * r) * 365, 10 * RandomSteps)

\* The generator's next state: a full-period generator over its outputs.
NextRandom(r) == (r + 5) % (RandomSteps + 1)

\* (datetime_now - utcfromtimestamp(cid // 1000)).days: whole days, floored.
DaysSinceCreation(now, cid) == (now - (cid \div 1000)) \div 86400

\* A slip: the graduating interval is added back instead of taken off.
TodayDayIndex_added(due, interval) == due + interval

\* Line 213.
TodayDayIndex(due, interval) == due - interval

\* A slip: the card's age is added instead of taken off.
DelayDayIndex_older(today, days, delay) == (today + days) + delay

\* Lines 219 and 262.
DelayDayIndex(today, days, delay) == (today - days) + delay

(***************************************************************************)
(* The payloads, as the script builds them.                                *)
(***************************************************************************)
AnswersFor(cards) == [k \in 1..Len(cards) |-> [cardId |-> cards[k], ease |-> Ease]]

SetDue(cid, due) ==
    [action |-> "setSpecificValueOfCard", card |-> cid,
     keys |-> <<"due">>, newValues |-> <<due>>]

RemoveTags(note) == [action |-> "removeTags", notes |-> <<note>>, tags |-> DefaultTag]

\* A slip: the tag removal is not queued.
RECURSIVE BuildActions_noTags(_, _)
BuildActions_noTags(cis, r) ==
    IF cis = <<>> THEN <<>>
    ELSE LET ci == Head(cis)
             days == DaysSinceCreation(datetime_now, ci.cardId)
             due == DelayDayIndex(today_day_index, days, DelayDay(r))
         IN  <<SetDue(ci.cardId, due)>> \o BuildActions_noTags(Tail(cis), NextRandom(r))

\* A slip: the tag removal is queued ahead of the new due date.
RECURSIVE BuildActions_tagsFirst(_, _)
BuildActions_tagsFirst(cis, r) ==
    IF cis = <<>> THEN <<>>
    ELSE LET ci == Head(cis)
             days == DaysSinceCreation(datetime_now, ci.cardId)
             due == DelayDayIndex(today_day_index, days, DelayDay(r))
         IN  <<RemoveTags(ci.note), SetDue(ci.cardId, due)>>
                 \o BuildActions_tagsFirst(Tail(cis), NextRandom(r))

\* Lines 256-281: two actions per card record, each with a fresh draw.
RECURSIVE BuildActions(_, _)
BuildActions(cis, r) ==
    IF cis = <<>> THEN <<>>
    ELSE LET ci == Head(cis)
             days == DaysSinceCreation(datetime_now, ci.cardId)
             due == DelayDayIndex(today_day_index, days, DelayDay(r))
         IN  <<SetDue(ci.cardId, due), RemoveTags(ci.note)>>
                 \o BuildActions(Tail(cis), NextRandom(r))

RECURSIVE Advance(_, _)
Advance(r, n) == IF n = 0 THEN r ELSE Advance(NextRandom(r), n - 1)

\* A slip: the loop ends after its first batch.
BatchAfter_firstOnly(k) ==
    LET bs == batched(card_ids, BATCH_SIZE)
    IN  IF k = 0 /\ Len(bs) > 0 THEN bs[1] ELSE <<>>

\* The batch the for loop of line 221 gets after `k` batches, <<>> at the end.
BatchAfter(k) ==
    LET bs == batched(card_ids, BATCH_SIZE)
    IN  IF k < Len(bs) THEN bs[k + 1] ELSE <<>>

\* The request the script posts at pc.
ThisRequest ==
    CASE pc \in {"sync", "final_sync"} -> [action |-> "sync"]
      [] pc = "findCards" -> [action |-> "findCards", tag |-> DefaultTag]
      [] pc \in {"cardsInfo", "probe_cardsInfo", "refetch"} ->
            [action |-> "cardsInfo", cards |-> <<first_card_id>>]
      [] pc = "getDeckConfig" -> [action |-> "getDeckConfig", deck |-> DeckName]
      [] pc = "forgetCards" -> [action |-> "forgetCards", cards |-> <<first_card_id>>]
      [] pc = "probe_answerCards" ->
            [action |-> "answerCards", answers |-> AnswersFor(<<first_card_id>>)]
      [] pc = "batch_forgetCards" -> [action |-> "forgetCards", cards |-> cids]
      [] pc = "batch_answerCards" -> [action |-> "answerCards", answers |-> AnswersFor(cids)]
      [] pc = "batch_cardsInfo" -> [action |-> "cardsInfo", cards |-> cids]
      [] pc = "batch_multi" -> [action |-> "multi", actions |-> actions]

Post == log' = Append(log, ThisRequest)

(***************************************************************************)
(* main(), lines 73-85.                                                    *)
(***************************************************************************)
\* A slip: the empty result is not noticed.
NoMatch_never(ids) == FALSE

\* `if not card_ids`, line 131.
NoMatch(ids) == Len(ids) = 0

\* A slip: the exception is swallowed whatever the debug flag says.
FaultStatus_swallowed(dbg) == 0

\* The status of a process whose main() let the exception through (raise,
\* line 85) or came back from pdb.post_mortem (line 83).
FaultStatus(dbg) == IF dbg THEN 0 ELSE 1

Exit(code) == pc' = "exit" /\ exit_code' = code

(***************************************************************************)
(* Initial states: the script has not started.  The inputs are the         *)
(* collection, the clock and the generator's seed.                         *)
(***************************************************************************)
Start(n, rev, need, gi, today, seed, now) ==
    /\ pc = "sync"
    /\ log = <<>>
    /\ exit_code = 0
    /\ exception = "none"
    /\ debug = FALSE
    /\ card_ids = <<>>
    /\ first_card_id = 0
    /\ graduating_interval = 0
    /\ review_count = 0
    /\ today_day_index = 0
    /\ datetime_now = 0
    /\ batch_no = 0
    /\ cids = <<>>
    /\ i = 0
    /\ actions = <<>>
    /\ anki = [n |-> n, reversed |-> rev, need |-> need, answered |-> need,
               gradDue |-> today + gi, gi |-> gi]
    /\ clock = now
    /\ rng = seed

\* Runs over every number of matching cards.
InitBatches ==
    \E n \in 0..MaxCards, rev \in BOOLEAN, need \in 0..MaxBatchNeed :
        Start(n, rev, need, 1, MaxToday, 0, 1300000)

\* Runs over every sample card and deck configuration.
InitProbe ==
    \E need \in 0..MaxNeed, gi \in 1..MaxGradInt, today \in 0..MaxToday :
        Start(1, FALSE, need, gi, today, 0, 1300000)

\* Runs over every seed and several clocks: on a day boundary, within a
\* day, and before some of the cards were created.
InitDelay ==
    \E n \in 1..MaxDelayCards, rev \in BOOLEAN, seed \in 0..RandomSteps,
       now \in {1296000, 1300000, 15000} :
        Start(n, rev, 1, 1, MaxToday, seed, now)

Init == InitBatches \/ InitProbe \/ InitDelay

(***************************************************************************)
(* The requests of _main(), lines 88-291.                                  *)
(***************************************************************************)
\* Line 112.
Sync ==
    /\ pc = "sync"
    /\ Post
    /\ pc' = "findCards"
    /\ UNCHANGED <<exit_code, exception, debug, card_ids, first_card_id,
                   graduating_interval, review_count, today_day_index,
                   datetime_now, batch_no, cids, i, actions, anki, clock, rng>>

\* Lines 118-136: return 0 when nothing matches; card_ids[0] raises
\* IndexError on an empty list.
FindCards ==
    /\ pc = "findCards"
    /\ Post
    /\ card_ids' = Matching
    /\ IF NoMatch(card_ids')
       THEN Exit(0) /\ UNCHANGED <<exception, debug, first_card_id>>
       ELSE IF Len(card_ids') = 0
       THEN /\ \E dbg \in BOOLEAN : debug' = dbg /\ Exit(FaultStatus(dbg))
            /\ exception' = "IndexError"
            /\ UNCHANGED first_card_id
       ELSE /\ first_card_id' = card_ids'[1]
            /\ pc' = "cardsInfo"
            /\ UNCHANGED <<exit_code, exception, debug>>
    /\ UNCHANGED <<graduating_interval, review_count, today_day_index,
                   datetime_now, batch_no, cids, i, actions, anki, clock, rng>>

\* Lines 137-148: the response is not read.
CardsInfoFirst ==
    /\ pc = "cardsInfo"
    /\ Post
    /\ pc' = "getDeckConfig"
    /\ UNCHANGED <<exit_code, exception, debug, card_ids, first_card_id,
                   graduating_interval, review_count, today_day_index,
                   datetime_now, batch_no, cids, i, actions, anki, clock, rng>>

\* Lines 153-162.
GetDeckConfig ==
    /\ pc = "getDeckConfig"
    /\ Post
    /\ graduating_interval' = anki.gi
    /\ pc' = "forgetCards"
    /\ UNCHANGED <<exit_code, exception, debug, card_ids, first_card_id,
                   review_count, today_day_index, datetime_now, batch_no, cids,
                   i, actions, anki, clock, rng>>

\* `while review_count < 10`, line 174.
ProbeNext(count) == IF count < ProbeLimit THEN "probe_cardsInfo" ELSE "refetch"

\* Lines 164-174.  A forget that leaves the card graduated is a sample card
\* that needs no answer.
ForgetFirst ==
    /\ pc = "forgetCards"
    /\ Post
    /\ anki' = [anki EXCEPT !.answered = 0]
    /\ review_count' = 0
    /\ pc' = ProbeNext(review_count')
    /\ UNCHANGED <<exit_code, exception, debug, card_ids, first_card_id,
                   graduating_interval, today_day_index, datetime_now,
                   batch_no, cids, i, actions, clock, rng>>

\* A slip: the loop stops at the learning queue, type 1.
Graduated_learning(ci) == ci[1].type = 1

\* `if ci[0]["type"] == 2: break`, line 184.
Graduated(ci) == ci[1].type = GraduatedType

\* Lines 175-185.
ProbeCardsInfo ==
    /\ pc = "probe_cardsInfo"
    /\ Post
    /\ pc' = IF Graduated(SampleInfo) THEN "refetch" ELSE "probe_answerCards"
    /\ UNCHANGED <<exit_code, exception, debug, card_ids, first_card_id,
                   graduating_interval, review_count, today_day_index,
                   datetime_now, batch_no, cids, i, actions, anki, clock, rng>>

\* Lines 186-199.
ProbeAnswer ==
    /\ pc = "probe_answerCards"
    /\ Post
    /\ anki' = Answered(<<first_card_id>>)
    /\ review_count' = review_count + 1
    /\ pc' = ProbeNext(review_count')
    /\ UNCHANGED <<exit_code, exception, debug, card_ids, first_card_id,
                   graduating_interval, today_day_index, datetime_now,
                   batch_no, cids, i, actions, clock, rng>>

\* Lines 204-221: today's day index, the clock read once, the sample
\* card's own draw (its delay_day_index is not used), and the first batch.
Refetch ==
    /\ pc = "refetch"
    /\ Post
    /\ today_day_index' = TodayDayIndex(SampleInfo[1].due, graduating_interval)
    /\ datetime_now' = clock
    /\ rng' = NextRandom(rng)
    /\ cids' = BatchAfter(0)
    /\ batch_no' = 1
    /\ pc' = IF cids' = <<>> THEN "final_sync" ELSE "batch_forgetCards"
    /\ UNCHANGED <<exit_code, exception, debug, card_ids, first_card_id,
                   graduating_interval, review_count, i, actions, anki, clock>>

\* A slip: the review loop runs once more than review_count.
AnswerNext_extra(k) == IF k <= review_count THEN "batch_answerCards" ELSE "batch_cardsInfo"

\* `for i in range(review_count)`, line 231.
AnswerNext(k) == IF k < review_count THEN "batch_answerCards" ELSE "batch_cardsInfo"

\* Lines 222-231.
BatchForget ==
    /\ pc = "batch_forgetCards"
    /\ Post
    /\ anki' = Forgotten(cids)
    /\ i' = 0
    /\ pc' = AnswerNext(i')
    /\ UNCHANGED <<exit_code, exception, debug, card_ids, first_card_id,
                   graduating_interval, review_count, today_day_index,
                   datetime_now, batch_no, cids, actions, clock, rng>>

\* Lines 232-245.
BatchAnswer ==
    /\ pc = "batch_answerCards"
    /\ Post
    /\ anki' = Answered(cids)
    /\ i' = i + 1
    /\ pc' = AnswerNext(i')
    /\ UNCHANGED <<exit_code, exception, debug, card_ids, first_card_id,
                   graduating_interval, review_count, today_day_index,
                   datetime_now, batch_no, cids, actions, clock, rng>>

\* Lines 247-281.
BatchCardsInfo ==
    /\ pc = "batch_cardsInfo"
    /\ Post
    /\ LET cis == CardsInfo(cids)
       IN  /\ actions' = BuildActions(cis, rng)
           /\ rng' = Advance(rng, Len(cis))
    /\ pc' = "batch_multi"
    /\ UNCHANGED <<exit_code, exception, debug, card_ids, first_card_id,
                   graduating_interval, review_count, today_day_index,
                   datetime_now, batch_no, cids, i, anki, clock>>

\* Lines 282-289, and the generator's next batch.
BatchMulti ==
    /\ pc = "batch_multi"
    /\ Post
    /\ cids' = BatchAfter(batch_no)
    /\ IF cids' = <<>>
       THEN pc' = "final_sync" /\ UNCHANGED batch_no
       ELSE pc' = "batch_forgetCards" /\ batch_no' = batch_no + 1
    /\ UNCHANGED <<exit_code, exception, debug, card_ids, first_card_id,
                   graduating_interval, review_count, today_day_index,
                   datetime_now, i, actions, anki, clock, rng>>

\* Lines 290-291; _main() returns None and main() returns.
FinalSync ==
    /\ pc = "final_sync"
    /\ Post
    /\ Exit(0)
    /\ UNCHANGED <<exception, debug, card_ids, first_card_id,
                   graduating_interval, review_count, today_day_index,
                   datetime_now, batch_no, cids, i, actions, anki, clock, rng>>

\* requests.post raises (timeout, connection refused), line 63: the
\* exception reaches main(), lines 78-85, which reads the debug flag.
Fault ==
    /\ pc # "exit"
    /\ Post
    /\ exception' = "RequestException"
    /\ \E dbg \in BOOLEAN : debug' = dbg /\ Exit(FaultStatus(dbg))
    /\ UNCHANGED <<card_ids, first_card_id, graduating_interval, review_count,
                   today_day_index, datetime_now, batch_no, cids, i, actions,
                   anki, clock, rng>>

\* AnkiConnect answers with an error and a null result, lines 65-67: the
\* warning is logged and the caller reads the result.  `not card_ids`
\* takes null for no match (the model keeps <<>> for it); the other
\* readers subscript or iterate it and raise TypeError.  Requests whose
\* result is not read go on as if answered.
ErrorResponse ==
    /\ pc \in {"findCards", "getDeckConfig", "probe_cardsInfo", "refetch",
               "batch_cardsInfo"}
    /\ Post
    /\ IF pc = "findCards" /\ NoMatch(<<>>)
       THEN Exit(0) /\ UNCHANGED <<exception, debug>>
       ELSE /\ exception' = "TypeError"
            /\ \E dbg \in BOOLEAN : debug' = dbg /\ Exit(FaultStatus(dbg))
    /\ UNCHANGED <<card_ids, first_card_id, graduating_interval, review_count,
                   today_day_index, datetime_now, batch_no, cids, i, actions,
                   anki, clock, rng>>

Next ==
    \/ Sync
    \/ FindCards
    \/ CardsInfoFirst
    \/ GetDeckConfig
    \/ ForgetFirst
    \/ ProbeCardsInfo
    \/ ProbeAnswer
    \/ Refetch
    \/ BatchForget
    \/ BatchAnswer
    \/ BatchCardsInfo
    \/ BatchMulti
    \/ FinalSync
    \/ Fault
    \/ ErrorResponse

Spec == Init /\ [][Next]_vars

(***************************************************************************)
(* Reading the log.                                                        *)
(***************************************************************************)
Range(seq) == {seq[k] : k \in 1..Len(seq)}

RECURSIVE Concat(_)
Concat(seqs) == IF seqs = <<>> THEN <<>> ELSE Head(seqs) \o Concat(Tail(seqs))

\* The positions of the log holding a request of the given action.
Posted(action) == {k \in 1..Len(log) : log[k].action = action}

\* The run came back from _main() without an exception.
Completed == pc = "exit" /\ exception = "none"

\* The forgetCards requests of the batches: those after the five requests
\* that come before the probe loop (sync, findCards, cardsInfo,
\* getDeckConfig, forgetCards).
BatchForgets == {k \in Posted("forgetCards") : k > 5}

\* The first request of the first batch, or past the end of the log.
BatchStart ==
    LET later == BatchForgets
    IN  IF later = {} THEN Len(log) + 1
        ELSE CHOOSE k \in later : \A m \in later : k <= m

\* The answerCards requests of the probe loop.
ProbeAnswers == {k \in Posted("answerCards") : k < BatchStart}

\* The probe loop is over.
ProbeOver ==
    \/ pc \in {"refetch", "batch_forgetCards", "batch_answerCards",
               "batch_cardsInfo", "batch_multi", "final_sync"}
    \/ pc = "exit" /\ batch_no >= 1

(***************************************************************************)
(* C1: when findCards answers with an empty list, the run ends with exit   *)
(* code 0 and findCards is the last request: the log holds sync and        *)
(* findCards and nothing else.                                             *)
(***************************************************************************)
C1_EmptyResultEndsRun ==
    (Len(log) >= 2 /\ Matching = <<>> /\ exception # "RequestException") =>
        /\ pc = "exit"
        /\ exit_code = 0
        /\ exception = "none"
        /\ Len(log) = 2
        /\ log[1].action = "sync"
        /\ log[2].action = "findCards"

C1_Witness ==
    /\ Completed
    /\ Matching = <<>>
    /\ card_ids = <<>>
    /\ exit_code = 0
    /\ Len(log) = 2

(***************************************************************************)
(* C2: a sample card that needs g "good" answers to reach type 2 gets at   *)
(* most min(g, 10) answerCards requests in the probe loop at any time, and *)
(* once the loop is over it has got exactly min(g, 10) of them and         *)
(* review_count is min(g, 10).                                             *)
(***************************************************************************)
C2_ProbeStopsAtGraduation ==
    /\ Cardinality(ProbeAnswers) <= Min(anki.need, ProbeLimit)
    /\ review_count <= Cardinality(ProbeAnswers)
    /\ ProbeOver =>
        /\ Cardinality(ProbeAnswers) = Min(anki.need, ProbeLimit)
        /\ review_count = Min(anki.need, ProbeLimit)
        /\ \A k \in ProbeAnswers : log[k].answers = <<[cardId |-> first_card_id, ease |-> 3]>>

C2_Witness ==
    /\ pc = "refetch"
    /\ anki.need = 2
    /\ review_count = 2
    /\ Cardinality(ProbeAnswers) = 2
    /\ SampleType = 2

(***************************************************************************)
(* C3: batching a non-empty list of card ids by 50 gives groups whose      *)
(* concatenation is the list; no group is empty, every group but the last  *)
(* has 50 elements and the last has 1 to 50.                               *)
(***************************************************************************)
C3_BatchesPartitionInput ==
    card_ids # <<>> =>
        LET bs == batched(card_ids, BATCH_SIZE)
        IN  /\ Concat(bs) = card_ids
            /\ Len(bs) >= 1
            /\ \A k \in 1..Len(bs) :
                  /\ Len(bs[k]) >= 1
                  /\ Len(bs[k]) <= 50
                  /\ k < Len(bs) => Len(bs[k]) = 50

C3_Witness ==
    /\ Len(card_ids) = 120
    /\ pc = "batch_forgetCards"
    /\ batch_no = 3
    /\ Len(cids) = 20
    /\ Len(batched(card_ids, BATCH_SIZE)) = 3

(***************************************************************************)
(* C4: the k-th multi request of a run carries the actions of the k-th     *)
(* batch, 2 x (size of the batch) of them: for each card of the batch, in  *)
(* order, one setSpecificValueOfCard on the card and then one removeTags.  *)
(* Each batch's forgetCards is followed by one multi before the next       *)
(* batch starts, and a completed run has posted one multi per batch.       *)
(***************************************************************************)
IsMulti(e) == e.action = "multi"

Multis == SelectSeq(log, IsMulti)

PayloadOf(acts, batch) ==
    /\ Len(acts) = 2 * Len(batch)
    /\ \A j \in 1..Len(batch) :
          /\ acts[2 * j - 1].action = "setSpecificValueOfCard"
          /\ acts[2 * j - 1].card = batch[j]
          /\ acts[2 * j].action = "removeTags"

C4_OneMultiPerBatch ==
    LET bs == batched(card_ids, BATCH_SIZE)
    IN  /\ Len(Multis) <= Len(bs)
        /\ \A k \in 1..Len(Multis) : PayloadOf(Multis[k].actions, bs[k])
        /\ Cardinality(BatchForgets) - Len(Multis) \in {0, 1}
        /\ Completed => Len(Multis) = Len(bs) /\ Cardinality(BatchForgets) = Len(bs)

C4_Witness ==
    /\ Completed
    /\ Len(card_ids) = 120
    /\ Len(Multis) = 3
    /\ Len(Multis[1].actions) = 100
    /\ Len(Multis[2].actions) = 100
    /\ Len(Multis[3].actions) = 40

(***************************************************************************)
(* C5: in every multi payload posted, a removeTags action comes right      *)
(* after a setSpecificValueOfCard action that sets the due field of a card *)
(* of the note the tag is removed from; removeTags is never posted as a    *)
(* request of its own.                                                     *)
(***************************************************************************)
C5_TagRemovalPaired ==
    /\ \A k \in 1..Len(log) : log[k].action # "removeTags"
    /\ \A k \in Posted("multi") :
          LET acts == log[k].actions
          IN  \A p \in 1..Len(acts) :
                 acts[p].action = "removeTags" =>
                    /\ p > 1
                    /\ acts[p - 1].action = "setSpecificValueOfCard"
                    /\ acts[p - 1].keys = <<"due">>
                    /\ Len(acts[p - 1].newValues) = 1
                    /\ acts[p].notes = <<NoteOf(acts[p - 1].card)>>

\* A payload in which two cards of one note each get their own pair.
C5_Witness ==
    \E k \in Posted("multi") :
        LET acts == log[k].actions
        IN  /\ Len(acts) >= 4
            /\ acts[2].action = "removeTags"
            /\ acts[4].action = "removeTags"
            /\ acts[2].notes = acts[4].notes
            /\ acts[1].card # acts[3].card

(***************************************************************************)
(* C6: every due value written is todayDayIndex - daysSinceCreation +      *)
(* delayDays, where daysSinceCreation is the whole number of days from     *)
(* the card's creation (its id, in milliseconds) to the one clock reading  *)
(* of the run, and delayDays lies in lo..hi.                               *)
(***************************************************************************)
DueWithin(lo, hi) ==
    /\ ProbeOver /\ pc # "refetch" => datetime_now = clock
    /\ \A k \in Posted("multi") :
          LET acts == log[k].actions
          IN  \A p \in 1..Len(acts) :
                 acts[p].action = "setSpecificValueOfCard" =>
                    \E delay \in lo..hi :
                        LET days == today_day_index + delay - acts[p].newValues[1]
                            secs == clock - (acts[p].card \div 1000)
                        IN  /\ days * 86400 <= secs
                            /\ secs < (days + 1) * 86400

\* C6 as stated: delayDays lies in 329..402.
C6_DelayFrom329 == DueWithin(329, 402)

\* C6 as amended: delayDays lies in 328..402, since round() sends the
\* smallest product, 0.9 x 365 = 328.5, to the even 328.
C6_DueInYearWindow == DueWithin(328, 402)

\* A card written with each end of the window, one of them created after
\* the clock reading.
C6_Witness ==
    \E k \in Posted("multi") :
        LET acts == log[k].actions
            Offset(p) == acts[p].newValues[1]
                            - (today_day_index - DaysSinceCreation(clock, acts[p].card))
        IN  /\ Len(acts) >= 4
            /\ Offset(1) = 328 \/ Offset(3) = 328
            /\ DaysSinceCreation(clock, acts[3].card) < 0

(***************************************************************************)
(* C7: a request that raises (timeout, connection refused) ends the run:   *)
(* nothing is posted after it.  When it is a request of batch N, no card   *)
(* of a later batch is in any forgetCards, answerCards or multi payload,   *)
(* no tag of such a card's own pair is removed, and the final sync is not  *)
(* posted.                                                                 *)
(***************************************************************************)
IsSetDue(a) == a.action = "setSpecificValueOfCard"

\* The cards a posted request acts on.
CardsOf(e) ==
    CASE e.action = "forgetCards" -> Range(e.cards)
      [] e.action = "answerCards" -> {e.answers[k].cardId : k \in 1..Len(e.answers)}
      [] e.action = "multi" ->
            {e.actions[p].card : p \in {q \in 1..Len(e.actions) : IsSetDue(e.actions[q])}}
      [] OTHER -> {}

Touched == UNION {CardsOf(log[k]) : k \in 1..Len(log)}

\* The cards of the batches after the one the loop is in.
LaterCards ==
    LET bs == batched(card_ids, BATCH_SIZE)
    IN  UNION {Range(bs[k]) : k \in (batch_no + 1)..Len(bs)}

\* The request that raised belongs to a batch.
RaisedInBatch ==
    /\ exception = "RequestException"
    /\ batch_no >= 1
    /\ log[Len(log)].action # "sync"

FaultStopsRun ==
    /\ exception = "RequestException" => pc = "exit" /\ ~ENABLED Next
    /\ RaisedInBatch =>
          /\ Touched \cap LaterCards = {}
          /\ Posted("sync") = {1}

C8_TodayIsDueLessInterval ==
    (batch_no >= 1 /\ anki.need <= 10) =>
        /\ graduating_interval = anki.gi
        /\ today_day_index = anki.gradDue - anki.gi

\* The largest interval, a card that graduates on the tenth answer.
C8_Witness ==
    /\ pc = "batch_forgetCards"
    /\ anki.gi = 30
    /\ anki.gradDue = 32
    /\ anki.need = 10
    /\ review_count = 10
    /\ today_day_index = 2

(***************************************************************************)
(* C9: from the first batch on, the log is, batch after batch, one         *)
(* forgetCards on the batch, review_count answerCards each answering every *)
(* card of the batch with ease 3, one cardsInfo on the batch and one       *)
(* multi, and then the final sync; a run with a matching card that         *)
(* completes has posted all of it, and sync is its first and last request  *)
(* and no other.                                                           *)
(***************************************************************************)
Shape(action, cards) == [action |-> action, cards |-> cards]

ShapeOf(e) ==
    CASE e.action \in {"forgetCards", "cardsInfo"} -> Shape(e.action, e.cards)
      [] e.action = "answerCards" ->
            Shape(e.action, [k \in 1..Len(e.answers) |-> e.answers[k].cardId])
      [] e.action = "multi" ->
            Shape(e.action, [j \in 1..(Len(e.actions) \div 2) |-> e.actions[2 * j - 1].card])
      [] OTHER -> Shape(e.action, <<>>)

ExpectedOf(batch) ==
    <<Shape("forgetCards", batch)>>
        \o [k \in 1..review_count |-> Shape("answerCards", batch)]
        \o <<Shape("cardsInfo", batch), Shape("multi", batch)>>

RECURSIVE ExpectedLog(_)
ExpectedLog(bs) ==
    IF bs = <<>> THEN <<Shape("sync", <<>>)>>
    ELSE ExpectedOf(Head(bs)) \o ExpectedLog(Tail(bs))

BatchLog == [k \in 1..(Len(log) + 1 - BatchStart) |-> ShapeOf(log[BatchStart + k - 1])]

C9_BatchesInSequence ==
    LET expected == ExpectedLog(batched(card_ids, BATCH_SIZE))
    IN  /\ batch_no >= 1 =>
              /\ Len(BatchLog) <= Len(expected)
              /\ BatchLog = SubSeq(expected, 1, Len(BatchLog))
        /\ \A k \in Posted("answerCards") :
              \A a \in 1..Len(log[k].answers) : log[k].answers[a].ease = 3
        /\ (Completed /\ card_ids # <<>>) =>
              /\ BatchLog = expected
              /\ Posted("sync") = {1, Len(log)}

\* Three batches, two answers each: 5 requests, 5 of the probe loop, the
\* second fetch, 3 x 5 of the batches and the final sync.
C9_Witness ==
    /\ Completed
    /\ Len(card_ids) = 120
    /\ review_count = 2
    /\ Len(log) = 27
    /\ Len(BatchLog) = 16

(***************************************************************************)
(* C10: card_ids is what findCards returned (nothing, when it answered     *)
(* with an error); every card a request acts on is one of them, and every  *)
(* note a tag is removed from is the note of such a card; in a completed   *)
(* run the cards given a new due date are the cards findCards returned,    *)
(* each once, each followed by the removal of the tag from its note.       *)
(***************************************************************************)
RECURSIVE Rescheduled(_)
Rescheduled(ms) ==
    IF ms = <<>> THEN <<>>
    ELSE LET sets == SelectSeq(Head(ms).actions, IsSetDue)
         IN  [k \in 1..Len(sets) |-> sets[k].card] \o Rescheduled(Tail(ms))

Untagged ==
    UNION {UNION {Range(log[k].actions[p].notes) :
                    p \in {q \in 1..Len(log[k].actions) : ~IsSetDue(log[k].actions[q])}} :
           k \in Posted("multi")}

C10_ExactlyTheMatchingCards ==
    /\ card_ids \in {<<>>, Matching}
    /\ Touched \subseteq Range(card_ids)
    /\ Untagged \subseteq {NoteOf(c) : c \in Range(card_ids)}
    /\ Completed =>
          /\ Rescheduled(Multis) = card_ids
          /\ Untagged = {NoteOf(c) : c \in Range(card_ids)}
          /\ Cardinality(Range(Rescheduled(Multis))) = Len(card_ids)

C10_Witness ==
    /\ Completed
    /\ anki.n = 120
    /\ anki.reversed
    /\ Len(Rescheduled(Multis)) = 120
    /\ Rescheduled(Multis)[1] = CardIdAt(120)
    /\ Rescheduled(Multis)[120] = CardIdAt(1)

====
